---- MODULE Spec2Model ----
(***************************************************************************)
(* Model of lib/SIL/DynamicCasts.cpp: the dynamic-cast feasibility         *)
(* classifier (classifyDynamicCast) and the emitter of casts that are      *)
(* known to succeed (CastEmitter and its two entry points).                *)
(*                                                                         *)
(* A type is the sequence of its unary wrappers, outermost first, ending   *)
(* in its base: <<"opt", "meta", "Derived">> is Optional<Derived.Type>.    *)
(***************************************************************************)
EXTENDS Integers, Sequences, FiniteSets, TLC

\* Bound: the number of wrapper layers of the types that are cast.
MaxLayers == 3


(***************************************************************************)
(* The type algebra the classifier queries.                                *)
(***************************************************************************)
Classes == {"Base", "Derived", "Other"}
Existentials == {"P", "Q"}
Archetypes == {"T"}
Bases == Classes \cup Existentials \cup Archetypes
Layers == {"opt", "meta", "exmeta"}

\* An existential metatype is the metatype of an existential type or of
\* another existential metatype.
WellFormed(t) ==
  \A i \in 1..(Len(t) - 1) :
    t[i] = "exmeta" => t[i + 1] \in ({"exmeta"} \cup Existentials)

Types ==
  { t \in UNION { { w \o <<b>> : w \in [1..n -> Layers], b \in Bases }
                  : n \in 0..MaxLayers } : WellFormed(t) }

\* The null CanType.
NoType == <<>>

getAnyOptionalObjectType(type) ==
  IF Head(type) = "opt" THEN Tail(type) ELSE NoType

isAnyMetatype(type) == Head(type) \in {"meta", "exmeta"}

\* A test that never recognizes an existential metatype.
isExistentialMetatypeMutant(type) == FALSE

isExistentialMetatype(type) == Head(type) = "exmeta"
getInstanceType(type) == Tail(type)

hasArchetype(type) == type[Len(type)] \in Archetypes
isExistentialType(type) == Len(type) = 1 /\ type[1] \in Existentials

getClassOrBoundGenericClass(type) ==
  IF Len(type) = 1 /\ type[1] \in Classes THEN type[1] ELSE "none"

\* Derived is a subclass of Base; Other is unrelated to both.
Superclass(c) == IF c = "Derived" THEN "Base" ELSE "none"

RECURSIVE ClassIsSuperclassOf(_, _)
ClassIsSuperclassOf(a, b) ==
  IF b = "none" THEN FALSE
  ELSE IF a = b THEN TRUE
  ELSE ClassIsSuperclassOf(a, Superclass(b))

\* a->isSuperclassOf(b): a is b or one of b's ancestors.
isSuperclassOf(a, b) ==
  ClassIsSuperclassOf(getClassOrBoundGenericClass(a),
                      getClassOrBoundGenericClass(b))

(***************************************************************************)
(* The feasibility classifier.                                             *)
(***************************************************************************)
WillSucceed == "WillSucceed"
MaySucceed == "MaySucceed"
WillFail == "WillFail"

\* A weakening that leaves WillSucceed as it is.
weakenSuccessMutant(v) == v

weakenSuccess(v) == IF v = WillSucceed THEN MaySucceed ELSE v

\* The loop strips metatype layers; depth is never incremented.
RECURSIVE getAnyMetatypeDepthLoop(_, _)
getAnyMetatypeDepthLoop(type, depth) ==
  IF isAnyMetatype(type)
  THEN getAnyMetatypeDepthLoop(getInstanceType(type), depth)
  ELSE depth

getAnyMetatypeDepth(type) == getAnyMetatypeDepthLoop(type, 0)

classCasts(source, target) ==
  IF getClassOrBoundGenericClass(source) # "none"
     /\ getClassOrBoundGenericClass(target) # "none"
  THEN IF isSuperclassOf(target, source) THEN WillSucceed
       ELSE IF isSuperclassOf(source, target) THEN MaySucceed
       ELSE WillFail
  ELSE WillFail

\* The metatype loop, then the class casts it falls through to.
RECURSIVE metatypeCasts(_, _)
metatypeCasts(source, target) ==
  IF isAnyMetatype(source)
  THEN IF ~isAnyMetatype(target) THEN WillFail
       ELSE IF isExistentialMetatype(source) \/ isExistentialMetatype(target)
            THEN IF getAnyMetatypeDepth(getInstanceType(source))
                    = getAnyMetatypeDepth(getInstanceType(target))
                 THEN MaySucceed
                 ELSE WillFail
            ELSE metatypeCasts(getInstanceType(source), getInstanceType(target))
  ELSE classCasts(source, target)

\* A classifier that weakens the verdict under a common level of
\* optionality.
RECURSIVE classifyDynamicCastMutant(_, _)
classifyDynamicCastMutant(source, target) ==
  IF source = target THEN WillSucceed
  ELSE LET sourceObject == getAnyOptionalObjectType(source)
           targetObject == getAnyOptionalObjectType(target)
       IN IF sourceObject # NoType /\ targetObject # NoType
          THEN weakenSuccess(classifyDynamicCastMutant(sourceObject,
                                                       targetObject))
          ELSE IF targetObject # NoType
          THEN classifyDynamicCastMutant(source, targetObject)
          ELSE IF sourceObject # NoType
          THEN weakenSuccess(classifyDynamicCastMutant(sourceObject, target))
          ELSE IF hasArchetype(source) \/ isExistentialType(source)
                  \/ hasArchetype(target) \/ isExistentialType(target)
          THEN MaySucceed
          ELSE metatypeCasts(source, target)

RECURSIVE classifyDynamicCast(_, _)
classifyDynamicCast(source, target) ==
  IF source = target THEN WillSucceed
  ELSE LET sourceObject == getAnyOptionalObjectType(source)
           targetObject == getAnyOptionalObjectType(target)
       IN IF sourceObject # NoType /\ targetObject # NoType
          THEN classifyDynamicCast(sourceObject, targetObject)
          ELSE IF targetObject # NoType
          THEN classifyDynamicCast(source, targetObject)
          ELSE IF sourceObject # NoType
          THEN weakenSuccess(classifyDynamicCast(sourceObject, target))
          ELSE IF hasArchetype(source) \/ isExistentialType(source)
                  \/ hasArchetype(target) \/ isExistentialType(target)
          THEN MaySucceed
          ELSE metatypeCasts(source, target)

RECURSIVE getOptionalDepth(_)
getOptionalDepth(type) ==
  IF getAnyOptionalObjectType(type) # NoType
  THEN 1 + getOptionalDepth(getAnyOptionalObjectType(type))
  ELSE 0

(***************************************************************************)
(* SIL values, Source and Target descriptors.                              *)
(*                                                                         *)
(* A value is an id with its lowered type: the type it lowers and whether  *)
(* it is an address.                                                       *)
(***************************************************************************)
NoValue == [id |-> -1, ty |-> NoType, addr |-> FALSE]
MkValue(id, ty, addr) == [id |-> id, ty |-> ty, addr |-> addr]

TakeAlways == "TakeAlways"
CopyOnSuccess == "CopyOnSuccess"

MkSource(value, formalType, consumption) ==
  [Value |-> value, FormalType |-> formalType, Consumption |-> consumption]

SourceIsAddress(source) == source.Value.addr

\* A Source that is always taken from.
shouldTakeMutant(source) == TRUE

shouldTake(source) == source.Consumption # CopyOnSuccess

\* Target(SILValue address, CanType formalType)
AddressTarget(address, formalType) ==
  [Address |-> address, LoweredType |-> address.ty, FormalType |-> formalType]

\* Target(SILType loweredType, CanType formalType)
ScalarTarget(loweredType, formalType) ==
  [Address |-> NoValue, LoweredType |-> loweredType, FormalType |-> formalType]

TargetIsAddress(target) == target.Address # NoValue

asAddressSource(target) ==
  MkSource(target.Address, target.FormalType, TakeAlways)

asScalarSource(target, value) ==
  MkSource(value, target.FormalType, TakeAlways)

(***************************************************************************)
(* The SIL builder: the blocks emitted so far, the insertion block, the    *)
(* next fresh value id, the assertions that failed, and a record of every  *)
(* optional-to-optional switch that was emitted.                           *)
(***************************************************************************)
Inst(op, a, b, r, take, tag, bb1, bb2) ==
  [op |-> op, a |-> a, b |-> b, r |-> r, take |-> take, tag |-> tag,
   bb1 |-> bb1, bb2 |-> bb2]

EmptyBlock == [args |-> <<>>, insts |-> <<>>]

\* A builder inserting at the end of an entry block; ids below firstId are
\* the caller's values.
NewBuilder(firstId) ==
  [blocks |-> <<EmptyBlock>>, cur |-> 1, next |-> firstId, failed |-> {},
   switches |-> <<>>]

Check(B, cond, name) ==
  IF cond THEN B ELSE [B EXCEPT !.failed = @ \cup {name}]

Add(B, inst) == [B EXCEPT !.blocks[B.cur].insts = Append(@, inst)]

\* An instruction with a result: the result gets the next fresh id.
AddWithResult(B, op, a, b, take, tag, ty, addr) ==
  LET r == MkValue(B.next, ty, addr)
  IN [B |-> [Add(B, Inst(op, a, b, r, take, tag, 0, 0)) EXCEPT !.next = @ + 1],
      v |-> r]

splitBlockForFallthrough(B) ==
  [B |-> [B EXCEPT !.blocks = Append(@, EmptyBlock)],
   bb |-> Len(B.blocks) + 1]

setInsertionPoint(B, bb) == [B EXCEPT !.cur = bb]

\* new (M) SILArgument(type, block)
SILArgument(B, ty, bb) ==
  LET r == MkValue(B.next, ty, FALSE)
  IN [B |-> [B EXCEPT !.blocks[bb].args = Append(@, r), !.next = @ + 1],
      v |-> r]

createBranch(B, dest, arg) ==
  Add(B, Inst("br", arg, NoValue, NoValue, FALSE, "", dest, 0))

createSwitchEnum(B, operand, someBB, noneBB) ==
  Add(B, Inst(IF operand.addr THEN "switch_enum_addr" ELSE "switch_enum",
              operand, NoValue, NoValue, FALSE, "", someBB, noneBB))

\* TypeLowering::emitRetainValue
emitRetainValue(B, value) ==
  Add(B, Inst("retain_value", value, NoValue, NoValue, FALSE, "", 0, 0))

\* TypeLowering::emitLoadOfCopy: a load that takes, or a load and a copy.
emitLoadOfCopy(B, address, isTake) ==
  AddWithResult(B, "load", address, NoValue, isTake, "", address.ty, FALSE)

\* TypeLowering::emitStoreOfCopy(..., IsInitialization)
emitStoreOfCopy(B, value, address) ==
  Add(B, Inst("store", value, address, NoValue, FALSE, "", 0, 0))

\* TypeLowering::emitCopyInto(..., isTake, IsInitialization)
emitCopyInto(B, src, dest, isTake) ==
  Add(B, Inst("copy_addr", src, dest, NoValue, isTake, "", 0, 0))

(***************************************************************************)
(* CastEmitter.  Every operator takes the builder and returns it with the  *)
(* Source (or value, or Target) the C++ method returns.                    *)
(***************************************************************************)
getOwnedScalar(B, source) ==
  LET B1 == Check(B, ~SourceIsAddress(source), "getOwnedScalar")
  IN [B |-> IF ~shouldTake(source) THEN emitRetainValue(B1, source.Value)
            ELSE B1,
      v |-> source.Value]

putOwnedScalar(B, scalar, target) ==
  LET B1 == Check(B, scalar.ty = target.LoweredType /\ ~scalar.addr,
                  "putOwnedScalar")
  IN IF ~TargetIsAddress(target)
     THEN [B |-> B1, result |-> asScalarSource(target, scalar)]
     ELSE [B |-> emitStoreOfCopy(B1, scalar, target.Address),
           result |-> asAddressSource(target)]

emitSameType(B, source0, target) ==
  LET B0 == Check(B, source0.FormalType = target.FormalType, "emitSameType")
      owned == IF ~SourceIsAddress(source0)
               THEN getOwnedScalar(B0, source0)
               ELSE [B |-> B0, v |-> source0.Value]
      source == IF ~SourceIsAddress(source0)
                THEN MkSource(owned.v, source0.FormalType, TakeAlways)
                ELSE source0
      B1 == owned.B
  IN IF ~TargetIsAddress(target) /\ ~SourceIsAddress(source)
     THEN [B |-> B1, result |-> source]
     ELSE IF ~TargetIsAddress(target)
     THEN LET ld == emitLoadOfCopy(B1, source.Value, shouldTake(source))
          IN [B |-> ld.B, result |-> asScalarSource(target, ld.v)]
     ELSE [B |-> IF SourceIsAddress(source)
                 THEN emitCopyInto(B1, source.Value, target.Address,
                                   shouldTake(source))
                 ELSE emitStoreOfCopy(B1, source.Value, target.Address),
           result |-> asAddressSource(target)]

prepareForEmitSome(B, target) ==
  LET objectType == getAnyOptionalObjectType(target.FormalType)
      B1 == Check(B, objectType # NoType, "prepareForEmitSome")
      loweredObjectType == IF Head(target.LoweredType) = "opt"
                           THEN Tail(target.LoweredType)
                           ELSE target.LoweredType
      formalObjectType == IF objectType # NoType THEN objectType
                          ELSE target.FormalType
  IN IF TargetIsAddress(target)
     THEN LET i == AddWithResult(B1, "init_enum_data_addr", target.Address,
                                 NoValue, FALSE, "some", loweredObjectType,
                                 TRUE)
          IN [B |-> i.B, target |-> AddressTarget(i.v, formalObjectType)]
     ELSE [B |-> B1,
           target |-> ScalarTarget(loweredObjectType, formalObjectType)]

\* An emitSome that does not tag an address target as present.
emitSomeMutant(B, source, target) ==
  IF TargetIsAddress(target)
  THEN [B |-> B, result |-> asAddressSource(target)]
  ELSE LET e == AddWithResult(B, "enum", source.Value, NoValue, FALSE,
                              "some", target.LoweredType, FALSE)
       IN [B |-> e.B, result |-> asScalarSource(target, e.v)]

emitSome(B, source, target) ==
  IF TargetIsAddress(target)
  THEN [B |-> Add(B, Inst("inject_enum_addr", target.Address, NoValue,
                          NoValue, FALSE, "some", 0, 0)),
        result |-> asAddressSource(target)]
  ELSE LET owned == getOwnedScalar(B, source)
           e == AddWithResult(owned.B, "enum", owned.v, NoValue, FALSE,
                              "some", target.LoweredType, FALSE)
       IN [B |-> e.B, result |-> asScalarSource(target, e.v)]

\* An emitNone that leaves an address target untouched.
emitNoneMutant(B, target) ==
  IF TargetIsAddress(target)
  THEN [B |-> B, result |-> asAddressSource(target)]
  ELSE LET e == AddWithResult(B, "enum", NoValue, NoValue, FALSE, "none",
                              target.LoweredType, FALSE)
       IN [B |-> e.B, result |-> asScalarSource(target, e.v)]

emitNone(B, target) ==
  LET B1 == Check(B, getAnyOptionalObjectType(target.FormalType) # NoType,
                  "emitNone")
  IN IF TargetIsAddress(target)
     THEN [B |-> Add(B1, Inst("inject_enum_addr", target.Address, NoValue,
                              NoValue, FALSE, "none", 0, 0)),
           result |-> asAddressSource(target)]
     ELSE LET e == AddWithResult(B1, "enum", NoValue, NoValue, FALSE, "none",
                                 target.LoweredType, FALSE)
          IN [B |-> e.B, result |-> asScalarSource(target, e.v)]

\* The branch that ends the present and the absent block.
branchToCont(B, result, target, contBB) ==
  LET B1 == Check(B, SourceIsAddress(result) = TargetIsAddress(target),
                  "emitOptionalToOptional")
  IN IF TargetIsAddress(target)
     THEN createBranch(B1, contBB, NoValue)
     ELSE createBranch(B1, contBB, result.Value)

\* The object source of the present block.
formObjectSource(B, source, sourceObjectType, someBB) ==
  LET loweredSourceObjectType == Tail(source.Value.ty)
  IN IF SourceIsAddress(source)
     THEN LET needTemp == ~shouldTake(source)
              al == IF needTemp
                    THEN AddWithResult(B, "alloc_stack", NoValue, NoValue,
                                       FALSE, "", source.Value.ty, TRUE)
                    ELSE [B |-> B, v |-> NoValue]
              B1 == IF needTemp
                    THEN Add(al.B, Inst("copy_addr", source.Value, al.v,
                                        NoValue, FALSE, "", 0, 0))
                    ELSE B
              sourceAddr == IF needTemp THEN al.v ELSE source.Value
              tk == AddWithResult(B1, "unchecked_take_enum_data_addr",
                                  sourceAddr, NoValue, TRUE, "some",
                                  loweredSourceObjectType, TRUE)
          IN [B |-> tk.B, sourceTemp |-> al.v,
              objectSource |-> MkSource(tk.v, sourceObjectType, TakeAlways)]
     ELSE LET arg == SILArgument(B, loweredSourceObjectType, someBB)
          IN [B |-> arg.B, sourceTemp |-> NoValue,
              objectSource |-> MkSource(arg.v, sourceObjectType,
                                        source.Consumption)]

\* emitOptionalToOptional up to the recursive emit: the switch, and the
\* present block up to the object source and the object target.
emitOptionalToOptionalSome(B, source, sourceObjectType, target) ==
  LET c == splitBlockForFallthrough(B)
      n == splitBlockForFallthrough(c.B)
      s == splitBlockForFallthrough(n.B)
      B1 == createSwitchEnum(s.B, source.Value, s.bb, n.bb)
      B2 == setInsertionPoint(B1, s.bb)
      prep == prepareForEmitSome(B2, target)
      obj == formObjectSource(prep.B, source, sourceObjectType, s.bb)
  IN [B |-> obj.B, objectSource |-> obj.objectSource,
      objectTarget |-> prep.target, sourceTemp |-> obj.sourceTemp,
      swBB |-> B.cur, someBB |-> s.bb, noneBB |-> n.bb, contBB |-> c.bb,
      level |-> getOptionalDepth(source.FormalType)]

\* An emitter that never deallocates the source temporary.
deallocSourceTempMutant(B, sourceTemp) == B

\* Deallocate the source temporary if we needed one.
deallocSourceTemp(B, sourceTemp) ==
  IF sourceTemp # NoValue
  THEN Add(B, Inst("dealloc_stack", sourceTemp, NoValue, NoValue, FALSE, "",
                   0, 0))
  ELSE B

\* emitOptionalToOptional from the recursive emit on: the rest of the
\* present block, the absent block and the continuation block.  st is what
\* emitOptionalToOptionalSome returned, rec what the recursive emit did.
emitOptionalToOptionalJoin(st, rec, target) ==
  LET B3 == deallocSourceTemp(rec.B, st.sourceTemp)
      some == emitSome(B3, rec.result, target)
      B4 == branchToCont(some.B, some.result, target, st.contBB)
      \* The None block.
      B5 == setInsertionPoint(B4, st.noneBB)
      none == emitNone(B5, target)
      B6 == branchToCont(none.B, none.result, target, st.contBB)
      \* The continuation block.
      B7 == setInsertionPoint(B6, st.contBB)
      arg == IF TargetIsAddress(target) THEN [B |-> B7, v |-> NoValue]
             ELSE SILArgument(B7, target.LoweredType, st.contBB)
      result == IF TargetIsAddress(target) THEN asAddressSource(target)
                ELSE asScalarSource(target, arg.v)
  IN [B |-> [arg.B EXCEPT !.switches =
               Append(@, [sw |-> st.swBB, some |-> st.someBB,
                          none |-> st.noneBB, cont |-> st.contBB,
                          target |-> target, temp |-> st.sourceTemp,
                          level |-> st.level, result |-> result])],
      result |-> result]

RECURSIVE emit(_, _, _)
emit(B, source, target) ==
  IF source.FormalType = target.FormalType
  THEN emitSameType(B, source, target)
  ELSE IF getAnyOptionalObjectType(source.FormalType) # NoType
  THEN LET st == emitOptionalToOptionalSome(
                    B, source, getAnyOptionalObjectType(source.FormalType),
                    target)
       IN emitOptionalToOptionalJoin(
            st, emit(st.B, st.objectSource, st.objectTarget), target)
  ELSE LET B1 == Check(B, getAnyOptionalObjectType(target.FormalType) = NoType,
                       "emit")
           ld == IF SourceIsAddress(source)
                 THEN emitLoadOfCopy(B1, source.Value, shouldTake(source))
                 ELSE getOwnedScalar(B1, source)
           up == AddWithResult(ld.B, "upcast", ld.v, NoValue, FALSE, "",
                               target.LoweredType, FALSE)
       IN putOwnedScalar(up.B, up.v, target)

RECURSIVE emitAndInjectIntoOptionals(_, _, _, _)
emitAndInjectIntoOptionals(B, source, target, depth) ==
  IF depth = 0 THEN emit(B, source, target)
  ELSE LET prep == prepareForEmitSome(B, target)
           rec == emitAndInjectIntoOptionals(prep.B, source, prep.target,
                                             depth - 1)
       IN emitSome(rec.B, rec.result, target)

\* A failed assertion ends the emission: nothing further is emitted.
emitTopLevel(B, source, target) ==
  LET sourceOptDepth == getOptionalDepth(source.FormalType)
      targetOptDepth == getOptionalDepth(target.FormalType)
  IN IF sourceOptDepth <= targetOptDepth
     THEN emitAndInjectIntoOptionals(B, source, target,
                                     targetOptDepth - sourceOptDepth)
     ELSE [B |-> Check(B, FALSE, "emitTopLevel"), result |-> source]

(***************************************************************************)
(* The classifier's answers over the casts of the model, tabulated.        *)
(***************************************************************************)
\* The type under k of its outer layers.
RECURSIVE Strip(_, _)
Strip(type, k) == IF k = 0 THEN type ELSE Strip(Tail(type), k - 1)

Ord(k, m) == IF k > m THEN "gt" ELSE IF k = m THEN "eq" ELSE "lt"

\* What the classifier answers for Opt^k(A) to Opt^m(B), by the verdict for
\* A to B and the order of k and m: every way of reading two types of the
\* model as Opt^k(A) and Opt^m(B).
VerdictTable ==
  UNION { { <<classifyDynamicCast(Strip(s, k), Strip(t, m)), Ord(k, m),
              classifyDynamicCast(s, t)>>
            : k \in 0..getOptionalDepth(s), m \in 0..getOptionalDepth(t) }
          : s \in Types, t \in Types }

\* The same for A and B that are not optional themselves.
CoreVerdictTable ==
  { <<classifyDynamicCast(Strip(s, getOptionalDepth(s)),
                          Strip(t, getOptionalDepth(t))),
      Ord(getOptionalDepth(s), getOptionalDepth(t)),
      classifyDynamicCast(s, t)>> : s \in Types, t \in Types }

(***************************************************************************)
(* State: one cast, from its classification through the emission of its   *)
(* code to a run of the emitted code along one of its paths.               *)
(***************************************************************************)
VARIABLES
  phase,        \* "idle", "classified", "emitted", "done" or "abort"
  sourceType,   \* the formal source type
  targetType,   \* the formal target type
  verdict,      \* classifyDynamicCast(sourceType, targetType)
  entry,        \* the entry point called: "scalar" or "indirect"
  source,       \* the Source the entry point builds
  target,       \* the Target the entry point builds
  code,         \* the builder after the emission
  result,       \* the Source the emitter returns
  failed,       \* the assertions that failed
  pc,           \* the next emitted instruction to run: block and index
  trace,        \* the emitted instructions run so far, with their blocks
  answers       \* the classifier's answers over all casts of the model

vars == <<phase, sourceType, targetType, verdict, entry, source, target,
          code, result, failed, pc, trace, answers>>

\* The caller's values: the source value and the destination address.
SrcId == 0
DestId == 1
FirstId == 2

NoSource == MkSource(NoValue, NoType, TakeAlways)
NoTarget == ScalarTarget(NoType, NoType)
EntryPC == [bb |-> 1, i |-> 1]

Init ==
  /\ phase = "idle"
  /\ sourceType = NoType
  /\ targetType = NoType
  /\ verdict = "none"
  /\ entry = "none"
  /\ source = NoSource
  /\ target = NoTarget
  /\ code = NewBuilder(FirstId)
  /\ result = NoSource
  /\ failed = {}
  /\ pc = EntryPC
  /\ trace = <<>>
  /\ answers = [all |-> VerdictTable, cores |-> CoreVerdictTable]

\* The compiler classifies a cast between two types.
Classify ==
  /\ phase = "idle"
  /\ \E s \in Types, t \in Types :
       /\ sourceType' = s
       /\ targetType' = t
       /\ verdict' = classifyDynamicCast(s, t)
  /\ phase' = "classified"
  /\ UNCHANGED <<entry, source, target, code, result, failed, pc, trace,
                 answers>>

\* The state after an entry point ran the emitter on src and tgt; post is
\* the set of the entry point's own assertions on the result that failed.
Emitted(name, src, tgt, r, post) ==
  /\ entry' = name
  /\ source' = src
  /\ target' = tgt
  /\ code' = r.B
  /\ result' = r.result
  /\ failed' = r.B.failed \cup post
  /\ phase' = IF failed' = {} THEN "emitted" ELSE "abort"
  /\ UNCHANGED <<sourceType, targetType, verdict, pc, trace, answers>>

\* An entry point whose precondition assertion fails.
PreconditionFailed(name) ==
  /\ entry' = name
  /\ failed' = {"precondition"}
  /\ phase' = "abort"
  /\ UNCHANGED <<sourceType, targetType, verdict, source, target, code,
                 result, pc, trace, answers>>

\* An entry point without the fast path.
fastPathMutant(source0, target0) == FALSE

\* Fast path changes that don't change the type.
fastPath(source0, target0) == source0 = target0

\* emitSuccessfulScalarUnconditionalCast.  Nothing asserts that the value
\* is not an address.
EmitScalar ==
  /\ phase = "classified"
  /\ \E valueIsAddress \in BOOLEAN :
       LET value == MkValue(SrcId, sourceType, valueIsAddress)
           src == MkSource(value, sourceType, TakeAlways)
           tgt == ScalarTarget(targetType, targetType)
       IN IF classifyDynamicCast(sourceType, targetType) # WillSucceed
          THEN PreconditionFailed("scalar")
          ELSE IF fastPath(sourceType, targetType)
          THEN Emitted("scalar", src, tgt,
                       [B |-> NewBuilder(FirstId), result |-> src], {})
          ELSE LET r == emitTopLevel(NewBuilder(FirstId), src, tgt)
               IN Emitted("scalar", src, tgt, r,
                          {"scalarResult" : x \in
                             IF ~SourceIsAddress(r.result)
                                /\ r.result.Value.ty = targetType
                                /\ r.result.Consumption = TakeAlways
                             THEN {} ELSE {1}})

\* emitSuccessfulIndirectUnconditionalCast.
EmitIndirect ==
  /\ phase = "classified"
  /\ \E consumption \in {TakeAlways, CopyOnSuccess} :
       LET src == MkSource(MkValue(SrcId, sourceType, TRUE), sourceType,
                           consumption)
           dest == MkValue(DestId, targetType, TRUE)
           tgt == AddressTarget(dest, targetType)
       IN IF classifyDynamicCast(sourceType, targetType) # WillSucceed
          THEN PreconditionFailed("indirect")
          ELSE LET r == emitTopLevel(NewBuilder(FirstId), src, tgt)
               IN Emitted("indirect", src, tgt, r,
                          {"indirectResult" : x \in
                             IF SourceIsAddress(r.result)
                                /\ r.result.Value = dest
                                /\ r.result.Consumption = TakeAlways
                             THEN {} ELSE {1}})

\* The emitted code runs one instruction; a switch goes either way.
AtEnd == pc.i > Len(code.blocks[pc.bb].insts)
CurInst == code.blocks[pc.bb].insts[pc.i]

Step ==
  /\ phase = "emitted"
  /\ ~AtEnd
  /\ trace' = Append(trace, [bb |-> pc.bb, inst |-> CurInst])
  /\ IF CurInst.op = "br"
     THEN pc' = [bb |-> CurInst.bb1, i |-> 1]
     ELSE IF CurInst.op \in {"switch_enum", "switch_enum_addr"}
     THEN \E bb \in {CurInst.bb1, CurInst.bb2} : pc' = [bb |-> bb, i |-> 1]
     ELSE pc' = [pc EXCEPT !.i = @ + 1]
  /\ UNCHANGED <<phase, sourceType, targetType, verdict, entry, source,
                 target, code, result, failed, answers>>

\* The run reaches the end of the emitted code.
Finish ==
  /\ phase = "emitted"
  /\ AtEnd
  /\ phase' = "done"
  /\ UNCHANGED <<sourceType, targetType, verdict, entry, source, target,
                 code, result, failed, pc, trace, answers>>

Next == Classify \/ EmitScalar \/ EmitIndirect \/ Step \/ Finish

Spec == Init /\ [][Next]_vars

(***************************************************************************)
(* Properties of the classifier.                                           *)
(***************************************************************************)
Classified == phase # "idle"

\* The number of metatype layers a type starts with.
RECURSIVE MetatypeNesting(_)
MetatypeNesting(type) ==
  IF Head(type) \in {"meta", "exmeta"} THEN 1 + MetatypeNesting(Tail(type))
  ELSE 0

\* The instance types left when the pairwise peeling of metatype layers
\* meets an existential metatype on either side; <<>> when it never does.
RECURSIVE PeelToExistential(_, _)
PeelToExistential(s, t) ==
  IF Head(s) \in {"meta", "exmeta"} /\ Head(t) \in {"meta", "exmeta"}
  THEN IF Head(s) = "exmeta" \/ Head(t) = "exmeta"
       THEN <<Tail(s), Tail(t)>>
       ELSE PeelToExistential(Tail(s), Tail(t))
  ELSE <<>>

PlainForMetatypeRule(type) ==
  /\ Head(type) # "opt"
  /\ type[Len(type)] \notin Archetypes
  /\ ~(Len(type) = 1 /\ type[1] \in Existentials)

ReachesExistentialLayer ==
  /\ Classified
  /\ sourceType # targetType
  /\ PlainForMetatypeRule(sourceType)
  /\ PlainForMetatypeRule(targetType)
  /\ PeelToExistential(sourceType, targetType) # <<>>

\* C1: when the pairwise peeling of the metatype layers of a non-optional,
\* non-existential, archetype-free source and target reaches an existential
\* metatype, the verdict is MaySucceed if the two remaining instance types
\* have the same metatype-nesting depth and WillFail if they differ.
C1_ExistentialMetatypeDepth ==
  ReachesExistentialLayer =>
    LET rest == PeelToExistential(sourceType, targetType)
    IN verdict = IF MetatypeNesting(rest[1]) = MetatypeNesting(rest[2])
                 THEN MaySucceed
                 ELSE WillFail

Optional(type) == <<"opt">> \o type

\* C2 as stated: for all types A and B, optional-wrapped ones included, if
\* A to B will succeed then Optional(A) to B may succeed.
C2_WrapSourceDemotes ==
  (Classified /\ verdict = WillSucceed) =>
    classifyDynamicCast(Optional(sourceType), targetType) = MaySucceed

\* C2 as amended: if A to B will succeed and B has no more optional layers
\* than A, then Optional(A) to B may succeed.
C2_WrapSourceDemotesAtEqualDepth ==
  (/\ Classified
   /\ verdict = WillSucceed
   /\ getOptionalDepth(targetType) <= getOptionalDepth(sourceType)) =>
    classifyDynamicCast(Optional(sourceType), targetType) = MaySucceed

C2_Witness ==
  /\ phase = "classified"
  /\ verdict = WillSucceed
  /\ sourceType # targetType
  /\ getOptionalDepth(sourceType) = 1
  /\ getOptionalDepth(targetType) = 1
  /\ classifyDynamicCast(Optional(sourceType), targetType) = MaySucceed

\* C3 as stated: the verdict for Opt^k(A) to Opt^m(B) is a function of the
\* verdict for A to B and of the order of k and m, for all types A and B:
\* the cast at hand, read any way as Opt^k(A) to Opt^m(B), gets the verdict
\* of every cast with the same inner verdict and the same order.
C3_OptionalSymmetry ==
  Classified =>
    \A k \in 0..getOptionalDepth(sourceType),
       m \in 0..getOptionalDepth(targetType) :
      \A e \in answers.all :
        (/\ e[1] = classifyDynamicCast(Strip(sourceType, k),
                                       Strip(targetType, m))
         /\ e[2] = Ord(k, m)) => e[3] = verdict

\* C3 as amended: the same for A and B that are not optional-wrapped.
C3_OptionalSymmetryOfCores ==
  Classified =>
    LET k == getOptionalDepth(sourceType)
        m == getOptionalDepth(targetType)
    IN \A e \in answers.cores :
         (/\ e[1] = classifyDynamicCast(Strip(sourceType, k),
                                        Strip(targetType, m))
          /\ e[2] = Ord(k, m)) => e[3] = verdict

C3_Witness ==
  /\ phase = "classified"
  /\ getOptionalDepth(sourceType) = 2
  /\ getOptionalDepth(targetType) = 1
  /\ classifyDynamicCast(Strip(sourceType, 2), Strip(targetType, 1))
       = WillSucceed
  /\ Strip(sourceType, 2) # Strip(targetType, 1)
  /\ verdict = MaySucceed

BothExistentialMetatypes ==
  /\ Classified
  /\ Head(sourceType) = "exmeta"
  /\ Head(targetType) = "exmeta"
  /\ MetatypeNesting(Tail(sourceType)) = MetatypeNesting(Tail(targetType))

\* C4 as stated: a cast between two existential metatypes of equal
\* remaining depth may succeed, and never will succeed, also when the two
\* instance types are identical.
C4_ExistentialMetatypesMaySucceed ==
  BothExistentialMetatypes => verdict = MaySucceed

\* C4 as amended: a cast between two existential metatypes of equal
\* remaining depth may succeed, except when the two instance types are
\* identical, where it will succeed.
C4_ExistentialMetatypesUnlessIdentical ==
  BothExistentialMetatypes =>
    verdict = IF Tail(sourceType) = Tail(targetType) THEN WillSucceed
              ELSE MaySucceed

C4_Witness ==
  /\ BothExistentialMetatypes
  /\ Tail(sourceType) # Tail(targetType)
  /\ Len(sourceType) = 3
  /\ verdict = MaySucceed

\* C5: a cast that will succeed has a target with at least as many optional
\* layers as its source, so the assertion sourceOptDepth <= targetOptDepth
\* of emitTopLevel holds whenever an entry point's precondition does.
C5_TargetDepthAtLeastSource ==
  /\ (Classified /\ verdict = WillSucceed) =>
       getOptionalDepth(sourceType) <= getOptionalDepth(targetType)
  /\ "emitTopLevel" \notin failed

C5_Witness ==
  /\ phase = "emitted"
  /\ getOptionalDepth(sourceType) = 1
  /\ getOptionalDepth(targetType) = 3
  /\ sourceType # Strip(targetType, 2)
  /\ failed = {}

(***************************************************************************)
(* Properties of the emitted code and of its runs.                         *)
(***************************************************************************)
Emitting == phase \in {"emitted", "done"}

IsSwitch(inst) == inst.op \in {"switch_enum", "switch_enum_addr"}

\* A copy of a value: the retain of a scalar, a load that does not take, a
\* copy into an address that does not take.
IsCopy(inst) ==
  \/ inst.op = "retain_value"
  \/ inst.op \in {"load", "copy_addr"} /\ ~inst.take

\* An instruction that takes the value out of address v.
TakesFrom(inst, v) ==
  /\ inst.op \in {"load", "copy_addr", "unchecked_take_enum_data_addr"}
  /\ inst.take
  /\ inst.a = v

CopyCount == Cardinality({ i \in DOMAIN trace : IsCopy(trace[i].inst) })

\* The run went through the absent branch of a switch on value v.
TookAbsentOf(v) ==
  \E i \in DOMAIN trace :
    /\ IsSwitch(trace[i].inst)
    /\ trace[i].inst.a = v
    /\ \/ i < Len(trace) /\ trace[i + 1].bb = trace[i].inst.bb2
       \/ i = Len(trace) /\ pc.bb = trace[i].inst.bb2

TookSomeAbsent ==
  \E i \in DOMAIN trace :
    /\ IsSwitch(trace[i].inst)
    /\ i < Len(trace)
    /\ trace[i + 1].bb = trace[i].inst.bb2

\* C6 as stated: along every path of the code of a cast emitted through an
\* entry point, the source is copied exactly once under CopyOnSuccess and
\* never under TakeAlways, and under CopyOnSuccess nothing takes from the
\* original source address.
C6_CopyCount ==
  /\ phase = "done" =>
       CopyCount = IF source.Consumption = CopyOnSuccess THEN 1 ELSE 0
  /\ (Emitting /\ source.Consumption = CopyOnSuccess) =>
       \A i \in DOMAIN trace : ~TakesFrom(trace[i].inst, source.Value)

\* C6 as amended: under TakeAlways the source is never copied; under
\* CopyOnSuccess it is copied exactly once along every path but those
\* through the absent branch of the switch on the original source, along
\* which it is never copied, and nothing takes from the original source
\* address.
C6_CopyCountButWhenAbsent ==
  /\ (Emitting /\ source.Consumption = TakeAlways) => CopyCount = 0
  /\ (Emitting /\ source.Consumption = CopyOnSuccess) =>
       /\ CopyCount <= 1
       /\ TookAbsentOf(source.Value) => CopyCount = 0
       /\ \A i \in DOMAIN trace : ~TakesFrom(trace[i].inst, source.Value)
  /\ (phase = "done" /\ source.Consumption = CopyOnSuccess
        /\ ~TookAbsentOf(source.Value)) => CopyCount = 1

C6_Witness ==
  /\ phase = "done"
  /\ entry = "indirect"
  /\ source.Consumption = CopyOnSuccess
  /\ Len(code.switches) = 2
  /\ TookSomeAbsent
  /\ CopyCount = 1

\* The temporaries live after a run, outermost first, and whether every
\* deallocation was of the temporary allocated last.
RECURSIVE TempStack(_)
TempStack(tr) ==
  IF tr = <<>> THEN [live |-> <<>>, lifo |-> TRUE]
  ELSE LET before == TempStack(SubSeq(tr, 1, Len(tr) - 1))
           inst == tr[Len(tr)].inst
       IN IF inst.op = "alloc_stack"
          THEN [before EXCEPT !.live = Append(@, inst.r)]
          ELSE IF inst.op = "dealloc_stack"
          THEN IF before.live # <<>>
                  /\ before.live[Len(before.live)] = inst.a
               THEN [before EXCEPT !.live = SubSeq(@, 1, Len(@) - 1)]
               ELSE [before EXCEPT !.lifo = FALSE]
          ELSE before

AllocCount(v) ==
  Cardinality({ i \in DOMAIN trace :
                  trace[i].inst.op = "alloc_stack" /\ trace[i].inst.r = v })

DeallocCount(v) ==
  Cardinality({ i \in DOMAIN trace :
                  trace[i].inst.op = "dealloc_stack" /\ trace[i].inst.a = v })

IsTempOp(inst) == inst.op \in {"alloc_stack", "dealloc_stack"}

SwitchRecords == { code.switches[i] : i \in DOMAIN code.switches }

\* The values a run derived from address v by taking enum payloads.
DerivedFrom(v) ==
  {v} \cup { trace[i].inst.r : i \in
               { j \in DOMAIN trace :
                   /\ trace[j].inst.op = "unchecked_take_enum_data_addr"
                   /\ trace[j].inst.a = v } }

\* The present wrapping of the target of switch sw: emitSome's instruction.
IsSomeOf(inst, sw) ==
  /\ inst.tag = "some"
  /\ IF TargetIsAddress(sw.target)
     THEN inst.op = "inject_enum_addr" /\ inst.a = sw.target.Address
     ELSE inst.op = "enum" /\ inst.r.ty = sw.target.LoweredType

\* C7: a stack temporary of emitOptionalToOptional is deallocated exactly
\* once on every path through its allocation, after the conversion of the
\* payload and before the present branch goes to its continuation block;
\* no path through the absent branch of its switch allocates or
\* deallocates, and allocations and deallocations nest.
C7_TemporaryDiscipline ==
  Emitting =>
    /\ TempStack(trace).lifo
    /\ phase = "done" => TempStack(trace).live = <<>>
    /\ \A sw \in SwitchRecords :
         \* a temporary only for an address source that is not taken
         /\ sw.temp # NoValue <=>
              (source.Consumption = CopyOnSuccess /\ sw.level
                 = getOptionalDepth(sourceType) /\ source.Value.addr)
         /\ AllocCount(sw.temp) <= 1
         /\ DeallocCount(sw.temp) <= AllocCount(sw.temp)
         /\ phase = "done" => DeallocCount(sw.temp) = AllocCount(sw.temp)
         /\ \A i \in DOMAIN code.blocks[sw.none].insts :
              ~IsTempOp(code.blocks[sw.none].insts[i])
         /\ (sw.temp # NoValue /\ TookAbsentOf(source.Value)) =>
              \A i \in DOMAIN trace : ~IsTempOp(trace[i].inst)
         /\ \A i \in DOMAIN trace :
              (trace[i].inst.op = "dealloc_stack" /\ trace[i].inst.a = sw.temp)
              =>
              \* after the conversion of the payload: nothing later reads
              \* the temporary or its payload
              /\ \A j \in DOMAIN trace :
                   (j > i) =>
                     /\ trace[j].inst.a \notin
                          UNION { DerivedFrom(w) : w \in DerivedFrom(sw.temp) }
                     /\ trace[j].inst.op # "upcast"
              \* before the branch to the continuation block
              /\ \A j \in DOMAIN trace :
                   (trace[j].inst.op = "br" /\ trace[j].inst.bb1 = sw.cont)
                   => j > i
              \* and right before the present wrapping of the result
              /\ (i < Len(trace)) => IsSomeOf(trace[i + 1].inst, sw)

C7_Witness ==
  /\ phase = "done"
  /\ Len(code.switches) = 2
  /\ \E sw \in SwitchRecords :
       /\ sw.temp # NoValue
       /\ AllocCount(sw.temp) = 1
       /\ DeallocCount(sw.temp) = 1
  /\ TookSomeAbsent

\* A present wrapping: what emitSome emits.
IsWrap(inst) ==
  inst.op \in {"inject_enum_addr", "enum"} /\ inst.tag = "some"

\* The block the emission ends in: the continuation block of the outermost
\* switch, or the entry block.
FinalBlock == code.cur

WrapsInFinalBlock ==
  Cardinality({ i \in DOMAIN code.blocks[FinalBlock].insts :
                  IsWrap(code.blocks[FinalBlock].insts[i]) })

WrapsRunInFinalBlock ==
  Cardinality({ i \in DOMAIN trace :
                  trace[i].bb = FinalBlock /\ IsWrap(trace[i].inst) })

SourceDepth == getOptionalDepth(sourceType)
TargetDepth == getOptionalDepth(targetType)

OptionalBase == <<"opt", "Base">>

AddressToScalarOfOptionalBase ==
  /\ Emitting
  /\ entry = "scalar"
  /\ source.Value.addr
  /\ source.Consumption = TakeAlways
  /\ sourceType = OptionalBase

AllInsts ==
  UNION { { code.blocks[b].insts[i] : i \in DOMAIN code.blocks[b].insts }
          : b \in DOMAIN code.blocks }

\* C9 as stated: the cast of an Optional<Base> at an address, taken, to a
\* scalar of the same formal type branches on present and absent: the
\* present block loads and takes the payload and builds a present scalar,
\* the absent block builds an absent scalar, and both branch to one
\* continuation block that gets the result as its parameter.
C9_SameTypeBranches ==
  (AddressToScalarOfOptionalBase /\ targetType = OptionalBase) =>
    /\ Len(code.switches) = 1
    /\ \E inst \in AllInsts : inst.op = "load" /\ inst.take
    /\ \E inst \in AllInsts : inst.op = "enum" /\ inst.tag = "some"
    /\ \E inst \in AllInsts : inst.op = "enum" /\ inst.tag = "none"
    /\ \A sw \in SwitchRecords : Len(code.blocks[sw.cont].args) = 1

\* C9 as amended: that cast emits no branch.  The entry point returns the
\* source value as it is and emits nothing; where the emitter converts
\* such a source to such a target under further optional layers of the
\* target, it emits one load that takes the whole optional from the source
\* address, and the present wrappings of the further layers.
C9_SameTypeLoadsWhole ==
  /\ (AddressToScalarOfOptionalBase /\ targetType = OptionalBase) =>
       /\ AllInsts = {}
       /\ Len(code.blocks) = 1
       /\ result.Value = source.Value
  /\ (AddressToScalarOfOptionalBase /\ targetType # OptionalBase
        /\ Strip(targetType, TargetDepth - 1) = OptionalBase) =>
       /\ code.switches = <<>>
       /\ Len(code.blocks) = 1
       /\ Len(code.blocks[1].insts) = TargetDepth
       /\ code.blocks[1].insts[1].op = "load"
       /\ code.blocks[1].insts[1].take
       /\ code.blocks[1].insts[1].a = source.Value
       /\ code.blocks[1].insts[1].r.ty = OptionalBase
       /\ \A i \in 2..TargetDepth : IsWrap(code.blocks[1].insts[i])

C9_Witness ==
  /\ AddressToScalarOfOptionalBase
  /\ targetType = OptionalBase
  /\ phase = "done"
  /\ trace = <<>>

BranchesTo(bb) ==
  { p \in UNION { { <<b, i>> : i \in DOMAIN code.blocks[b].insts }
                  : b \in DOMAIN code.blocks } :
      /\ code.blocks[p[1]].insts[p[2]].op = "br"
      /\ code.blocks[p[1]].insts[p[2]].bb1 = bb }

\* The instructions of the run up to its j-th that initialize address v.
InitsOf(v, j) ==
  { i \in 1..j :
      \/ trace[i].inst.op \in {"store", "copy_addr"} /\ trace[i].inst.b = v
      \/ trace[i].inst.op = "inject_enum_addr" /\ trace[i].inst.a = v }

\* The payload addresses the run projected out of address v up to its j-th
\* instruction.
PayloadsOf(v, j) ==
  { trace[i].inst.r : i \in
      { k \in 1..j : /\ trace[k].inst.op = "init_enum_data_addr"
                     /\ trace[k].inst.a = v } }

\* C10: at every level, the present and the absent branch of an
\* optional-to-optional emission end in a branch to the same continuation
\* block; with an address target each path initializes the target address
\* exactly once (the payload written, then tagged present; or tagged
\* absent) and the branch carries no argument; with a scalar target each
\* branch passes one value of the target's lowered type to the single
\* parameter of the continuation block; the Source returned has the
\* representation of the target and is TakeAlways.
C10_BranchesJoin ==
  Emitting =>
    \A sw \in SwitchRecords :
      /\ Cardinality(BranchesTo(sw.cont)) = 2
      /\ \E p \in BranchesTo(sw.cont) : p[1] = sw.none
      /\ \E p \in BranchesTo(sw.cont) : p[1] # sw.none
      /\ \A p \in BranchesTo(sw.cont) : p[2] = Len(code.blocks[p[1]].insts)
      /\ IsSwitch(code.blocks[sw.sw].insts[Len(code.blocks[sw.sw].insts)])
      /\ code.blocks[sw.sw].insts[Len(code.blocks[sw.sw].insts)].bb1 = sw.some
      /\ code.blocks[sw.sw].insts[Len(code.blocks[sw.sw].insts)].bb2 = sw.none
      \* a run that took the switch gets to the continuation block
      /\ phase = "done" =>
           \A i \in DOMAIN trace :
             (trace[i].bb = sw.sw /\ IsSwitch(trace[i].inst)) =>
               \E j \in DOMAIN trace :
                 /\ j > i
                 /\ trace[j].inst.op = "br"
                 /\ trace[j].inst.bb1 = sw.cont
      /\ sw.result.Consumption = TakeAlways
      /\ sw.result.Value.addr = TargetIsAddress(sw.target)
      /\ sw.result.FormalType = sw.target.FormalType
      /\ IF TargetIsAddress(sw.target)
         THEN /\ sw.result.Value = sw.target.Address
              /\ code.blocks[sw.cont].args = <<>>
              /\ \A p \in BranchesTo(sw.cont) :
                   code.blocks[p[1]].insts[p[2]].a = NoValue
              /\ \A j \in DOMAIN trace :
                   (trace[j].inst.op = "br" /\ trace[j].inst.bb1 = sw.cont) =>
                     /\ Cardinality(InitsOf(sw.target.Address, j)) = 1
                     /\ \A i \in InitsOf(sw.target.Address, j) :
                          /\ trace[i].inst.op = "inject_enum_addr"
                          /\ IF trace[i].inst.tag = "some"
                             THEN /\ Cardinality(
                                       PayloadsOf(sw.target.Address, j)) = 1
                                  /\ \A q \in PayloadsOf(sw.target.Address, j) :
                                       /\ Cardinality(InitsOf(q, j)) = 1
                                       /\ Cardinality(InitsOf(q, i)) = 1
                             ELSE PayloadsOf(sw.target.Address, j) = {}
         ELSE /\ Len(code.blocks[sw.cont].args) = 1
              /\ code.blocks[sw.cont].args[1] = sw.result.Value
              /\ sw.result.Value.ty = sw.target.LoweredType
              /\ \A p \in BranchesTo(sw.cont) :
                   LET arg == code.blocks[p[1]].insts[p[2]].a
                   IN /\ arg # NoValue
                      /\ ~arg.addr
                      /\ arg.ty = sw.target.LoweredType

C10_Witness ==
  /\ phase = "done"
  /\ entry = "indirect"
  /\ Len(code.switches) = 2
  /\ TookSomeAbsent
  /\ \E sw \in SwitchRecords :
       \E j \in DOMAIN trace :
         /\ trace[j].inst.op = "br"
         /\ trace[j].inst.bb1 = sw.cont
         /\ \E i \in InitsOf(sw.target.Address, j) :
              trace[i].inst.tag = "some"

====
